---- MODULE Spec2Model ----
(***************************************************************************)
(* Model of r2_facial_recognition/client/local/recognition.py:             *)
(* load_images (with its nested check_and_add), get_cached, add_cache and  *)
(* check_faces, over a small file system, cache directory and registry.    *)
(*                                                                         *)
(* Strings are sequences of one-character strings, so that rindex, slicing *)
(* and single-character indexing are computed as Python computes them.     *)
(* A cache file is a sequence of words; an embedding is a sequence of      *)
(* numbers, one word each when written with tobytes().                     *)
(***************************************************************************)
EXTENDS Integers, Sequences, FiniteSets, TLC

\* ------------------------------------------------------------------ bounds
\* Largest number of entries of the registry a caller starts with.
MaxReg == 1
\* Largest number of faces in a probe image.
MaxFaces == 2

\* Number of coordinates of an embedding that face_encodings returns.
Dim == 2

\* --------------------------------------------------------- string helpers
Max(S) == CHOOSE x \in S : \A y \in S : y <= x
Min(S) == CHOOSE x \in S : \A y \in S : x <= y

\* str.rindex(ch), 1-based; 0 stands for the ValueError Python raises when
\* ch does not occur.
RIndex(s, ch) ==
    LET I == {i \in 1..Len(s) : s[i] = ch}
    IN  IF I = {} THEN 0 ELSE Max(I)

\* s[:i] for the 1-based position i of a character (Python s[:i-1]).
Before(s, i) == SubSeq(s, 1, i - 1)
After(s, i) == SubSeq(s, i + 1, Len(s))

\* os.path.split: head and tail around the last "/".
SplitHead(p) == IF RIndex(p, "/") = 0 THEN <<>> ELSE Before(p, RIndex(p, "/"))
SplitTail(p) == IF RIndex(p, "/") = 0 THEN p ELSE After(p, RIndex(p, "/"))

\* os.path.join(a, b) for a relative b.
Join(a, b) ==
    IF a = <<>> THEN b
    ELSE IF a[Len(a)] = "/" THEN a \o b
    ELSE a \o <<"/">> \o b

\* ------------------------------------------------------ program constants
IMG_EXTs == { <<".", "j", "p", "g">>,
              <<".", "j", "p", "e", "g">>,
              <<".", "p", "n", "g">> }

Unknown == <<"U", "n", "k", "n", "o", "w", "n">>

\* The suffix get_cached and add_cache append to the name.
EncodingSuffix == <<".", "e", "n", "c", "o", "d", "i", "n", "g">>

\* --------------------------------------------------------------- vectors
\* the embeddings that occur: of the faces in the images and probes, and
\* in seeded cache entries
EA == [i \in 1..Dim |-> 0]
EB == [i \in 1..Dim |-> IF i = 1 THEN 1 ELSE 0]
EC == [i \in 1..Dim |-> IF i = Dim THEN 1 ELSE 0]

Embeddings == {EA, EB, EC}

\* ----------------------------------------------------------- file system
\* The image tree the program is pointed at:
\*   d/a.jpg      one face (EA)
\*   d/n.txt      not an image
\*   d/s/b.png    two faces (EB, then EA)
\*   e/R          no extension, not an image
\*   e/c.         empty extension, not an image
\*   g/a.png      one face (EC); same stem as d/a.jpg
\*   g/z.png      an image with no face
\*   ./R          no extension, below a directory whose name has a dot
Fa_jpg == <<"a", ".", "j", "p", "g">>
Fb_png == <<"b", ".", "p", "n", "g">>
Fa_png == <<"a", ".", "p", "n", "g">>
Fz_png == <<"z", ".", "p", "n", "g">>
Fn_txt == <<"n", ".", "t", "x", "t">>
FR == <<"R">>
Fc_dot == <<"c", ".">>

DirD == <<"d">>
DirDS == <<"d", "/", "s">>
DirE == <<"e">>
DirG == <<"g">>
DirDot == <<".">>

NotImage == [image |-> FALSE, faces |-> <<>>]
Image(fs) == [image |-> TRUE, faces |-> fs]

\* path of a regular file -> what decoding and embedding it gives
Files ==
    (Join(DirD, Fa_jpg) :> Image(<<EA>>)) @@
    (Join(DirD, Fn_txt) :> NotImage) @@
    (Join(DirDS, Fb_png) :> Image(<<EB, EA>>)) @@
    (Join(DirE, FR) :> NotImage) @@
    (Join(DirE, Fc_dot) :> NotImage) @@
    (Join(DirG, Fa_png) :> Image(<<EC>>)) @@
    (Join(DirG, Fz_png) :> Image(<<>>)) @@
    (Join(DirDot, FR) :> NotImage)

\* directory -> the directories os.walk yields for it, top-down
WalkDirs ==
    (DirD :> <<DirD, DirDS>>) @@
    (DirDS :> <<DirDS>>) @@
    (DirE :> <<DirE>>) @@
    (DirG :> <<DirG>>)

isfile(p) == p \in DOMAIN Files
isdir(p) == p \in DOMAIN WalkDirs

\* the names of the regular files directly in directory d
Listing(d) == {SplitTail(p) : p \in {q \in DOMAIN Files : SplitHead(q) = d}}

\* all orders in which a set of names can be listed
RECURSIVE Orders(_)
Orders(S) ==
    IF S = {} THEN { <<>> }
    ELSE UNION { { <<x>> \o o : o \in Orders(S \ {x}) } : x \in S }

\* os.walk(path): the file lists of path and its sub-directories, top-down;
\* the order inside one listing is the operating system's.  The result is
\* the set of flattened sequences "for _, _, files in os.walk: for file in
\* files" can iterate over.
RECURSIVE WalkFrom(_)
WalkFrom(dirs) ==
    IF dirs = <<>> THEN { <<>> }
    ELSE { o \o rest : o \in Orders(Listing(Head(dirs))),
                       rest \in WalkFrom(Tail(dirs)) }

WalkTable == [d \in DOMAIN WalkDirs |-> WalkFrom(WalkDirs[d])]
Walks(path) == WalkTable[path]

\* face_recognition.load_image_file followed by face_recognition.face_encodings
\* on a path: the list of embeddings, or the error decoding raises.
\* PIL's UnidentifiedImageError is an OSError.
face_encodings_of(p) ==
    IF ~isfile(p) THEN [err |-> "FileNotFoundError", val |-> <<>>]
    ELSE IF ~Files[p].image THEN [err |-> "UnidentifiedImageError", val |-> <<>>]
    ELSE [err |-> "none", val |-> Files[p].faces]

\* face_encodings(...)[0]
first_encoding(p) ==
    LET r == face_encodings_of(p)
    IN  IF r.err # "none" THEN [err |-> r.err, val |-> <<>>]
        ELSE IF r.val = <<>> THEN [err |-> "IndexError", val |-> <<>>]
        ELSE [err |-> "none", val |-> r.val[1]]

OSErrors == {"FileNotFoundError", "UnidentifiedImageError"}

\* ----------------------------------------------------------------- cache
\* A cache directory maps the file name <name>.encoding to whether the file
\* exists and the words it holds.
CachePath(name) == name \o EncodingSuffix

NoFile == [exists |-> FALSE, bytes |-> <<>>]
File(b) == [exists |-> TRUE, bytes |-> b]

\* first word of the magic string of a .npy file; no embedding word is it
MagicWord == 147

\* tobytes as it would be if the array were written in numpy.save's format
tobytes_with_header(e) == <<MagicWord, Len(e)>> \o [i \in 1..Len(e) |-> e[i]]

\* numpy.ndarray.tobytes(): the raw elements, no header
tobytes(e) == [i \in 1..Len(e) |-> e[i]]

\* numpy.save: magic, header (the length), then the elements
npy(e) == <<MagicWord, Len(e)>> \o tobytes(e)

\* numpy.load(file, allow_pickle=False) on the words of an existing file.
\* An empty file is an EOFError ("No data left in file"); anything that
\* does not start with the magic is taken for a pickle and refused with
\* ValueError.  Neither is an OSError.
numpy_load(b) ==
    IF b = <<>> THEN [err |-> "EOFError", val |-> <<>>]
    ELSE IF b[1] # MagicWord THEN [err |-> "ValueError", val |-> <<>>]
    ELSE IF Len(b) < 2 \/ Len(b) # 2 + b[2] THEN [err |-> "ValueError", val |-> <<>>]
    ELSE [err |-> "none", val |-> SubSeq(b, 3, Len(b))]

get_cached(name, c) ==
    IF ~c[CachePath(name)].exists THEN [err |-> "FileNotFoundError", val |-> <<>>]
    ELSE numpy_load(c[CachePath(name)].bytes)

\* open(..., 'rb+') does not create the file; seek(0), truncate(), write().
truncate(c, f) == [c EXCEPT ![f] = File(<<>>)]
write(c, f, b) == [c EXCEPT ![f] = File(@.bytes \o b)]

\* add_cache as it would be if it removed the old entry before opening it
add_cache_remove_first(name, encoding, c) ==
    IF ~c[CachePath(name)].exists THEN [err |-> "FileNotFoundError", c |-> c]
    ELSE [err |-> "FileNotFoundError",
          c |-> [c EXCEPT ![CachePath(name)] = NoFile]]

add_cache(name, encoding, c) ==
    IF ~c[CachePath(name)].exists THEN [err |-> "FileNotFoundError", c |-> c]
    ELSE [err |-> "none",
          c |-> write(truncate(c, CachePath(name)), CachePath(name),
                      tobytes(encoding))]

\* ------------------------------------------------------------- registry
\* A registry (a Python dict) is a sequence of <<name, embedding>> pairs in
\* insertion order; assigning to a present key keeps its position.
HasKey(m, k) == \E i \in 1..Len(m) : m[i][1] = k
Lookup(m, k) == m[CHOOSE i \in 1..Len(m) : m[i][1] = k][2]
\* SetItem as it would be if a name already present kept its embedding
\* (dict.setdefault)
SetItem_keep(m, k, v) ==
    IF HasKey(m, k) THEN m ELSE Append(m, <<k, v>>)

SetItem(m, k, v) ==
    IF HasKey(m, k)
    THEN [i \in 1..Len(m) |-> IF m[i][1] = k THEN <<k, v>> ELSE m[i]]
    ELSE Append(m, <<k, v>>)
Keys(m) == {m[i][1] : i \in 1..Len(m)}

\* ----------------------------------------------------------- load_images
\* The state one call of load_images threads through its steps:
\*   m        the mappings dict          c      the cache directory
\*   visited  files the walk iterated    steps  files whose resolution ran
\*   enc      image paths handed to the embedding collaborator
\*   rd, hit  names get_cached was called with / returned for
\*   wr       names add_cache wrote      warned the extension warning
\*   err      "none", or the exception that ended the call
\* Start as it would be if line 38 always began from an empty dict
Start_empty(m, c) ==
    [m |-> <<>>, c |-> c, visited |-> <<>>, steps |-> <<>>, enc |-> <<>>,
     rd |-> <<>>, hit |-> <<>>, wr |-> <<>>, warned |-> FALSE, err |-> "none"]

Start(m, c) ==
    [m |-> m, c |-> c, visited |-> <<>>, steps |-> <<>>, enc |-> <<>>,
     rd |-> <<>>, hit |-> <<>>, wr |-> <<>>, warned |-> FALSE, err |-> "none"]

Raise(st, e) == [st EXCEPT !.err = e]

\* resolve_direct as it would be if the computed encoding were also written
\* to the cache when caching is disabled
resolve_direct_caching(st, filename_, img) ==
    LET r == first_encoding(img)
        s1 == [st EXCEPT !.enc = Append(@, img)]
        w == add_cache(filename_, r.val, s1.c)
    IN  IF r.err # "none" THEN Raise(s1, r.err)
        ELSE IF w.err # "none" THEN [s1 EXCEPT !.m = SetItem(@, filename_, r.val)]
        ELSE [s1 EXCEPT !.c = w.c,
                        !.wr = Append(@, filename_),
                        !.m = SetItem(@, filename_, r.val)]

\* lines 54-57: caching disabled
resolve_direct(st, filename_, img) ==
    LET r == first_encoding(img)
        s1 == [st EXCEPT !.enc = Append(@, img)]
    IN  IF r.err # "none" THEN Raise(s1, r.err)
        ELSE [s1 EXCEPT !.m = SetItem(@, filename_, r.val)]

\* resolve_miss as it would be if line 52 came before line 51: the registry
\* entry is assigned before the cache write is attempted
resolve_miss_insert_first(st, filename_, img) ==
    LET r == first_encoding(img)
        s1 == [st EXCEPT !.enc = Append(@, img)]
        s2 == [s1 EXCEPT !.m = SetItem(@, filename_, r.val)]
        w == add_cache(filename_, r.val, s1.c)
    IN  IF r.err # "none" THEN Raise(s1, r.err)
        ELSE IF w.err # "none" THEN Raise(s2, w.err)
        ELSE [s2 EXCEPT !.c = w.c, !.wr = Append(@, filename_)]

\* lines 46-52: the except OSError branch
resolve_miss(st, filename_, img) ==
    LET r == first_encoding(img)
        s1 == [st EXCEPT !.enc = Append(@, img)]
        w == add_cache(filename_, r.val, s1.c)
    IN  IF r.err # "none" THEN Raise(s1, r.err)
        ELSE IF w.err # "none" THEN Raise(s1, w.err)
        ELSE [s1 EXCEPT !.c = w.c,
                        !.wr = Append(@, filename_),
                        !.m = SetItem(@, filename_, r.val)]

\* resolve_cached as it would be if the handler caught every exception
\* (except Exception) and recomputed
resolve_cached_catch_all(st, filename_, file_, img) ==
    LET r == get_cached(file_, st.c)
        s1 == [st EXCEPT !.rd = Append(@, file_)]
    IN  IF r.err = "none"
        THEN [s1 EXCEPT !.hit = Append(@, file_),
                        !.m = SetItem(@, filename_, r.val)]
        ELSE resolve_miss(s1, filename_, img)

\* lines 42-52: caching enabled
resolve_cached(st, filename_, file_, img) ==
    LET r == get_cached(file_, st.c)
        s1 == [st EXCEPT !.rd = Append(@, file_)]
    IN  IF r.err = "none"
        THEN [s1 EXCEPT !.hit = Append(@, file_),
                        !.m = SetItem(@, filename_, r.val)]
        ELSE IF r.err \in OSErrors THEN resolve_miss(s1, filename_, img)
        ELSE Raise(s1, r.err)

\* lines 40-57
check_and_add(st, path_, file_, cache) ==
    IF RIndex(file_, ".") = 0 THEN Raise(st, "ValueError")
    ELSE LET filename_ == Before(file_, RIndex(file_, "."))
             img == Join(path_, file_)
             s1 == [st EXCEPT !.steps = Append(@, file_)]
         IN  IF cache THEN resolve_cached(s1, filename_, file_, img)
             ELSE resolve_direct(s1, filename_, img)

\* line 63 / line 69: file[ext_idx+1] in IMG_EXTs, for the 1-based position
\* ext_idx of the last "."; the operand is the one character after the dot.
ext_recognized(file, ext_idx) == <<file[ext_idx + 1]>> \in IMG_EXTs

\* lines 60-66, over the flattened walk
RECURSIVE walk_files(_, _, _, _)
walk_files(st, path, files, cache) ==
    IF files = <<>> \/ st.err # "none" THEN st
    ELSE LET file == Head(files)
             ext_idx == RIndex(file, ".")
             s1 == [st EXCEPT !.visited = Append(@, file)]
         IN  IF ext_idx = 0 THEN Raise(s1, "ValueError")
             ELSE IF ext_idx + 1 > Len(file) THEN Raise(s1, "IndexError")
             ELSE IF ext_recognized(file, ext_idx)
             THEN walk_files(check_and_add(s1, path, Before(file, ext_idx),
                                           cache),
                             path, Tail(files), cache)
             ELSE walk_files(s1, path, Tail(files), cache)

\* lines 67-74
load_file(st, path, cache) ==
    LET ext_idx == RIndex(path, ".")
    IN  IF ext_idx = 0 THEN Raise(st, "ValueError")
        ELSE IF ext_idx + 1 > Len(path) THEN Raise(st, "IndexError")
        ELSE check_and_add([st EXCEPT !.warned = ~ext_recognized(path, ext_idx)],
                           SplitHead(path), SplitTail(path), cache)

\* invalid_path as it would be if the final else returned instead of raising
invalid_path_silent(st) == st

\* lines 75-77
invalid_path(st) == Raise(st, "RuntimeError")

\* lines 38-78; files is the order os.walk lists a directory in
load_images(path, m, cache, c, files) ==
    IF isdir(path) THEN walk_files(Start(m, c), path, files, cache)
    ELSE IF isfile(path) THEN load_file(Start(m, c), path, cache)
    ELSE invalid_path(Start(m, c))

\* ----------------------------------------------------------- check_faces
\* squared Euclidean distance
RECURSIVE SumSq(_, _, _)
SumSq(a, b, i) ==
    IF i = 0 THEN 0 ELSE (a[i] - b[i]) * (a[i] - b[i]) + SumSq(a, b, i - 1)
Dist2(a, b) == SumSq(a, b, Len(a))

\* compare_faces' default tolerance, 0.6, in tenths
ToleranceTenths == 6

\* What the collaborator computes from a list of known encodings:
\* face_distance is the distance to each, compare_faces is distance <=
\* tolerance for each.  Distances are kept squared (same order, same argmin).
face_distance(known, face) == [i \in 1..Len(known) |-> Dist2(known[i], face)]
compare_faces(known, face) ==
    [i \in 1..Len(known) |->
        100 * Dist2(known[i], face) <= ToleranceTenths * ToleranceTenths]

\* numpy.argmin: the first index of the minimum (1-based)
argmin(d) == Min({i \in 1..Len(d) : \A j \in 1..Len(d) : d[i] <= d[j]})

\* line 96 makes known_encodings a map object: a one-shot iterator, with no
\* len().  The collaborator either needs a list or an array (it takes len()
\* of its argument and subtracts from it: TypeError on a map object), or
\* iterates its argument, which leaves the iterator empty for every later
\* call.
Collaborators == {"array", "iterable"}

\* what is left of an iterator once a call has iterated over it
Drained(it) == SubSeq(it, Len(it) + 1, Len(it))

\* lines 102-112; it is what is left of the known_encodings iterator, and
\* seen lists, per face, the known encodings the flags and the distances
\* were computed against
RECURSIVE face_loop(_, _, _, _, _, _)
face_loop(unknown, ordered_map, it, identities, seen, collab) ==
    IF unknown = <<>>
    THEN [err |-> "none", ids |-> identities, seen |-> seen]
    ELSE IF collab = "array"
    THEN [err |-> "TypeError", ids |-> identities, seen |-> seen]
    ELSE LET unknown_face == Head(unknown)
             matches == compare_faces(it, unknown_face)
             face_distances == face_distance(Drained(it), unknown_face)
             seen1 == Append(seen, [flags |-> it, dists |-> Drained(it)])
         IN  IF face_distances = <<>>
             THEN [err |-> "ValueError", ids |-> identities, seen |-> seen1]
             ELSE LET closest_idx == argmin(face_distances)
                  IN  IF closest_idx > Len(matches)
                      THEN [err |-> "IndexError", ids |-> identities,
                            seen |-> seen1]
                      ELSE face_loop(Tail(unknown), ordered_map,
                               Drained(Drained(it)),
                               Append(identities,
                                      IF matches[closest_idx]
                                      THEN ordered_map[closest_idx][1]
                                      ELSE Unknown),
                               seen1, collab)

\* lines 94-113; img is the sequence of faces detection finds in the image
face_locations(img) == [i \in 1..Len(img) |-> img[i].box]
face_encodings(img) == [i \in 1..Len(img) |-> img[i].enc]

check_faces(img, m, collab) ==
    LET ordered_map == m
        known_encodings == [i \in 1..Len(m) |-> m[i][2]]
        r == face_loop(face_encodings(img), ordered_map, known_encodings,
                       <<>>, <<>>, collab)
    IN  [err |-> r.err,
         ids |-> IF r.err = "none" THEN r.ids ELSE <<>>,
         locs |-> IF r.err = "none" THEN face_locations(img) ELSE <<>>,
         seen |-> r.seen]

\* ------------------------------------------------------------------ state
VARIABLES
    cacheDir,   \* the cache directory: file name -> NoFile or File(words)
    mappings,   \* the caller's registry, passed to and returned by the calls
    last,       \* the call made last: its arguments and what it did
    prev,       \* the call before it, where a specification tracks it
    race        \* the processes at work on the cache directory concurrently

vars == <<cacheDir, mappings, last, prev, race>>

\* names a cache entry can be asked for: file names and their stems
Tails == {SplitTail(p) : p \in DOMAIN Files}
Stems == {Before(t, RIndex(t, ".")) : t \in {u \in Tails : RIndex(u, ".") > 0}}
CacheNames == Tails \cup Stems
CacheFiles == {CachePath(n) : n \in CacheNames}

\* the paths load_images is called with: the files, two directories, and a
\* path that does not exist
Missing == <<"q">>
Paths == DOMAIN Files \cup {DirD, DirE, DirG} \cup {Missing}

\* cache entries that may exist before the program runs, and what they hold:
\* nothing, or a well-formed array file
SeedNames == {Fa_jpg, Before(Fa_jpg, RIndex(Fa_jpg, "."))}
SeedFiles == {NoFile, File(<<>>), File(npy(EC))}
InitCaches ==
    {[f \in CacheFiles |->
         IF f \in DOMAIN seed THEN seed[f] ELSE NoFile] :
     seed \in [{CachePath(n) : n \in SeedNames} -> SeedFiles]}

\* names get_cached and add_cache are called with directly
DirectNames == SeedNames

\* registries a caller may hold before the first call
People == { << <<"b">>, EC >>, << <<"c">>, EB >> }
RECURSIVE Registries(_)
Registries(n) ==
    IF n = 0 THEN { <<>> }
    ELSE LET R == Registries(n - 1)
         IN  R \cup { Append(x[1], x[2]) :
                        x \in {y \in R \X People :
                                  Len(y[1]) = n - 1 /\ ~HasKey(y[1], y[2][1])} }

\* probe images: up to MaxFaces faces, the i-th in box i
ProbeFaces == {EA, EB}
Probes ==
    UNION { { [i \in 1..n |-> [box |-> i, enc |-> f[i]]] : f \in [1..n -> ProbeFaces] }
            : n \in 0..MaxFaces }

NoCall ==
    [op |-> "none", path |-> <<>>, cache |-> FALSE, fresh |-> FALSE,
     visited |-> <<>>, steps |-> <<>>, enc |-> <<>>, rd |-> <<>>, hit |-> <<>>,
     wr |-> <<>>, warned |-> FALSE, err |-> "none",
     emb |-> <<>>, img |-> <<>>, ids |-> <<>>, locs |-> <<>>, seen |-> <<>>]

\* what is remembered of the call before the last one
Summary(call) ==
    [op |-> call.op, path |-> call.path, cache |-> call.cache,
     err |-> call.err, enc |-> call.enc, hit |-> call.hit, wr |-> call.wr]

\* Processes that run add_cache (writers) and get_cached (the reader) one
\* file operation at a time.  A writer is "idle", "opened" (lines 88-89 done)
\* or "writing" (line 90 done, pos words of line 91 in the file).  The reader
\* is "idle", at "header" (file opened, array header read, n elements
\* announced) or "done" (numpy.load returned val or raised err); mid tells
\* whether a writer was inside add_cache for the same name at one of its
\* reads.
Writers == {"w1", "w2"}
WIdle == [pc |-> "idle", name |-> <<>>, bytes |-> <<>>, pos |-> 0]
RIdle == [pc |-> "idle", name |-> <<>>, n |-> 0, mid |-> FALSE,
          err |-> "none", val |-> <<>>]
NoRace == [w |-> [p \in Writers |-> WIdle], r |-> RIdle]

Init ==
    /\ cacheDir \in InitCaches
    /\ mappings \in Registries(MaxReg)
    /\ last = NoCall
    /\ prev = Summary(NoCall)
    /\ race = NoRace

\* ---------------------------------------------------------------- actions
\* load_images(path, mappings, cache, cache_location).  fresh: the caller
\* passes no mappings (None) and a new dict is used.  The dict that was
\* passed is updated in place, so it keeps what was inserted before an
\* error; the caller of a successful call holds the returned dict.
LoadImages(path, cache, fresh, files, track) ==
    \E st \in {load_images(path, IF fresh THEN <<>> ELSE mappings, cache,
                             cacheDir, files)} :
        /\ cacheDir' = st.c
        /\ mappings' = IF fresh /\ st.err # "none" THEN mappings ELSE st.m
        /\ last' = [NoCall EXCEPT !.op = "load_images", !.path = path,
                                  !.cache = cache, !.fresh = fresh,
                                  !.visited = st.visited, !.steps = st.steps,
                                  !.enc = st.enc, !.rd = st.rd, !.hit = st.hit,
                                  !.wr = st.wr, !.warned = st.warned,
                                  !.err = st.err]
        /\ prev' = IF track THEN Summary(last) ELSE prev
        /\ UNCHANGED race

Load ==
    \E path \in Paths, cache \in BOOLEAN, fresh \in BOOLEAN :
        \E files \in (IF isdir(path) THEN Walks(path) ELSE { <<>> }) :
            LoadImages(path, cache, fresh, files, FALSE)

\* get_cached(name, cache_location), called directly
GetCached ==
    \E name \in DirectNames :
        \E r \in {get_cached(name, cacheDir)} :
            /\ last' = [NoCall EXCEPT !.op = "get_cached", !.path = name,
                                      !.err = r.err, !.emb = r.val]
            /\ UNCHANGED <<cacheDir, mappings, prev, race>>

\* add_cache(name, encoding, cache_location), called directly
AddCache ==
    \E name \in DirectNames, encoding \in Embeddings :
        \E r \in {add_cache(name, encoding, cacheDir)} :
            /\ cacheDir' = r.c
            /\ last' = [NoCall EXCEPT !.op = "add_cache", !.path = name,
                                      !.err = r.err, !.emb = encoding]
            /\ UNCHANGED <<mappings, prev, race>>

\* check_faces(img, mappings)
CheckFaces ==
    \E img \in Probes, collab \in Collaborators :
        \E r \in {check_faces(img, mappings, collab)} :
            /\ last' = [NoCall EXCEPT !.op = "check_faces", !.img = img,
                                      !.err = r.err, !.ids = r.ids,
                                      !.locs = r.locs, !.seen = r.seen]
            /\ UNCHANGED <<cacheDir, mappings, prev, race>>

Next ==
    \/ Load
    \/ GetCached
    \/ AddCache
    \/ CheckFaces

Spec == Init /\ [][Next]_vars

\* Repeated loading into one registry: only load_images is called, always
\* with the caller's registry, and each call remembers the one before it.
LoadAgain ==
    \E path \in Paths, cache \in BOOLEAN :
        \E files \in (IF isdir(path) THEN Walks(path) ELSE { <<>> }) :
            LoadImages(path, cache, FALSE, files, TRUE)

NextRepeat == LoadAgain

SpecRepeat == Init /\ [][NextRepeat]_vars

\* ------------------------------------------------ concurrent cache access
\* numpy.load reads a file in two operations: the magic and the header, then
\* the n elements the header announced, from the file as it is by then.
\* Fewer elements than announced cannot be given the announced shape:
\* ValueError.
npy_header(b) ==
    IF b = <<>> THEN [err |-> "EOFError", n |-> 0]
    ELSE IF b[1] # MagicWord \/ Len(b) < 2 THEN [err |-> "ValueError", n |-> 0]
    ELSE [err |-> "none", n |-> b[2]]

npy_data(b, n) ==
    IF Len(b) < 2 + n THEN [err |-> "ValueError", val |-> <<>>]
    ELSE [err |-> "none", val |-> SubSeq(b, 3, 2 + n)]

\* one word written at offset pos of an open file; writing past the end
\* (another process truncated the file meanwhile) leaves a hole of zeros
write_at(c, f, pos, w) ==
    [c EXCEPT ![f] = File([i \in 1..Max({Len(@.bytes), pos + 1}) |->
                              IF i = pos + 1 THEN w
                              ELSE IF i <= Len(@.bytes) THEN @.bytes[i]
                              ELSE 0])]

\* the embeddings the writers store; none is all zeros, so a hole is told
\* apart from data
RaceEmbeddings == {EB, EC}

\* a writer is inside add_cache for this name
Writing(name) == \E p \in Writers : race.w[p].pc # "idle" /\ race.w[p].name = name

\* lines 88-89: open(..., 'rb+') of an existing entry, seek(0).  (On a
\* missing entry open raises and the process has done nothing.)
WOpen(p) ==
    /\ race.w[p].pc = "idle"
    /\ \E name \in DirectNames, encoding \in RaceEmbeddings :
           /\ cacheDir[CachePath(name)].exists
           /\ race' = [race EXCEPT !.w[p] = [pc |-> "opened", name |-> name,
                                             bytes |-> tobytes(encoding),
                                             pos |-> 0]]
    /\ UNCHANGED <<cacheDir, mappings, last, prev>>

\* line 90: truncate() at offset 0
WTruncate(p) ==
    /\ race.w[p].pc = "opened"
    /\ cacheDir' = truncate(cacheDir, CachePath(race.w[p].name))
    /\ race' = [race EXCEPT !.w[p].pc = "writing"]
    /\ UNCHANGED <<mappings, last, prev>>

\* line 91: the next word of the bytes reaches the file
WWrite(p) ==
    /\ race.w[p].pc = "writing"
    /\ race.w[p].pos < Len(race.w[p].bytes)
    /\ cacheDir' = write_at(cacheDir, CachePath(race.w[p].name), race.w[p].pos,
                            race.w[p].bytes[race.w[p].pos + 1])
    /\ race' = [race EXCEPT !.w[p].pos = @ + 1]
    /\ UNCHANGED <<mappings, last, prev>>

\* the with block of lines 88-91 ends
WClose(p) ==
    /\ race.w[p].pc = "writing"
    /\ race.w[p].pos = Len(race.w[p].bytes)
    /\ race' = [race EXCEPT !.w[p] = WIdle]
    /\ UNCHANGED <<cacheDir, mappings, last, prev>>

\* lines 82-83: get_cached opens the entry and numpy.load reads the header
ROpen ==
    /\ race.r.pc \in {"idle", "done"}
    /\ \E name \in DirectNames :
         \E h \in {npy_header(cacheDir[CachePath(name)].bytes)} :
           race' = [race EXCEPT !.r =
               IF ~cacheDir[CachePath(name)].exists
               THEN [RIdle EXCEPT !.pc = "done", !.name = name,
                                  !.mid = Writing(name),
                                  !.err = "FileNotFoundError"]
               ELSE IF h.err # "none"
               THEN [RIdle EXCEPT !.pc = "done", !.name = name,
                                  !.mid = Writing(name), !.err = h.err]
               ELSE [RIdle EXCEPT !.pc = "header", !.name = name,
                                  !.mid = Writing(name), !.n = h.n]]
    /\ UNCHANGED <<cacheDir, mappings, last, prev>>

\* line 83: numpy.load reads the elements and get_cached returns
RData ==
    /\ race.r.pc = "header"
    /\ \E d \in {npy_data(cacheDir[CachePath(race.r.name)].bytes, race.r.n)} :
           race' = [race EXCEPT !.r.pc = "done",
                                !.r.mid = @ \/ Writing(race.r.name),
                                !.r.err = d.err, !.r.val = d.val]
    /\ UNCHANGED <<cacheDir, mappings, last, prev>>

InitRace ==
    /\ cacheDir \in InitCaches
    /\ mappings = <<>>
    /\ last = NoCall
    /\ prev = Summary(NoCall)
    /\ race = NoRace

NextRace ==
    \/ \E p \in Writers : WOpen(p)
    \/ \E p \in Writers : WTruncate(p)
    \/ \E p \in Writers : WWrite(p)
    \/ \E p \in Writers : WClose(p)
    \/ ROpen
    \/ RData

SpecRace == InitRace /\ [][NextRace]_vars

\* ------------------------------------------------------------ properties
\* the extension of a file name, from its last "." on, and the name without it
Ext(t) == IF RIndex(t, ".") = 0 THEN <<>> ELSE SubSeq(t, RIndex(t, "."), Len(t))
Stem(t) == IF RIndex(t, ".") = 0 THEN t ELSE Before(t, RIndex(t, "."))

Range(q) == {q[i] : i \in 1..Len(q)}
Count(q, x) == Cardinality({i \in 1..Len(q) : q[i] = x})

\* the regular files at any depth below a directory, and those among them
\* with a recognised image extension
Under(dir) == {p \in DOMAIN Files : SplitHead(p) \in Range(WalkDirs[dir])}
ImagesUnder(dir) == {p \in Under(dir) : Ext(SplitTail(p)) \in IMG_EXTs}

\* every recognised image below dir decodes and shows a face
Loadable(dir) ==
    \A p \in ImagesUnder(dir) : Files[p].image /\ Files[p].faces # <<>>

CacheEmpty == \A f \in CacheFiles : ~cacheDir[f].exists

IsLoad(call) == call.op = "load_images"

\* C1: two loads of the same directory with cache=True, from an empty cache
\* directory, invoke the embedding collaborator exactly once per identity
\* over both calls; the second call is served by cache reads alone.
C1_OncePerIdentity ==
    ( /\ IsLoad(prev) /\ IsLoad(last)
      /\ prev.cache /\ last.cache
      /\ prev.path = last.path /\ isdir(last.path) /\ Loadable(last.path)
      /\ CacheEmpty )
    => /\ \A p \in ImagesUnder(last.path) : Count(prev.enc \o last.enc, p) = 1
       /\ last.enc = <<>>
       /\ Len(last.hit) = Len(last.steps)

\* C2: add_cache(N, E) followed by get_cached(N) succeeds and returns E,
\* whether or not an entry for N existed before.
C2_RoundTrip ==
    last.op = "add_cache"
    => /\ last.err = "none"
       /\ get_cached(last.path, cacheDir) = [err |-> "none", val |-> last.emb]

\* C3: after a load_images call with cache=True that returns, every name it
\* resolved has a cache entry whose embedding is the registry's.
C3_CacheCoherent ==
    (IsLoad(last) /\ last.cache /\ last.err = "none")
    => \A i \in 1..Len(last.steps) :
           /\ HasKey(mappings, Stem(last.steps[i]))
           /\ get_cached(Stem(last.steps[i]), cacheDir)
                  = [err |-> "none",
                     val |-> Lookup(mappings, Stem(last.steps[i]))]

\* the label C4 prescribes for a face: the name of the registry entry at
\* minimum distance (the first such) if its match flag is set, else Unknown
Known(m) == [i \in 1..Len(m) |-> m[i][2]]
Nearest(m, face) == argmin(face_distance(Known(m), face))
LabelFor(m, face) ==
    IF compare_faces(Known(m), face)[Nearest(m, face)]
    THEN m[Nearest(m, face)][1]
    ELSE Unknown

\* C4: against a non-empty registry, check_faces labels each detected face
\* with the name of the entry at minimum distance iff that entry's match
\* flag is true, and with "Unknown" otherwise.
C4_NearestLabel ==
    (last.op = "check_faces" /\ mappings # <<>>)
    => /\ last.err = "none"
       /\ Len(last.ids) = Len(last.img)
       /\ \A i \in 1..Len(last.img) :
              last.ids[i] = LabelFor(mappings, last.img[i].enc)

\* C5: against an empty registry, check_faces raises nothing and labels
\* every detected face "Unknown", one result per face.
C5_EmptyRegistry ==
    (last.op = "check_faces" /\ mappings = <<>>)
    => /\ last.err = "none"
       /\ Len(last.ids) = Len(last.img)
       /\ \A i \in 1..Len(last.img) : last.ids[i] = Unknown

\* two or more registry entries are at the minimum distance from the face
Tied(m, face) ==
    /\ m # <<>>
    /\ Cardinality({i \in 1..Len(m) :
           \A j \in 1..Len(m) : Dist2(m[i][2], face) <= Dist2(m[j][2], face)}) >= 2

\* C6: when several registry entries are at the same minimum distance from
\* a face, check_faces selects the one inserted first.
C6_TieBreak ==
    (last.op = "check_faces" /\ \E i \in 1..Len(last.img) : Tied(mappings, last.img[i].enc))
    => /\ last.err = "none"
       /\ \A i \in 1..Len(last.img) :
              Tied(mappings, last.img[i].enc)
              => /\ i <= Len(last.ids)
                 /\ last.ids[i] \in
                        {mappings[Min({k \in 1..Len(mappings) :
                             \A j \in 1..Len(mappings) :
                                 Dist2(mappings[k][2], last.img[i].enc)
                                     <= Dist2(mappings[j][2], last.img[i].enc)})][1],
                         Unknown}

\* C7: a directory load completes without error, visits every file at every
\* depth, and leaves the registry with an entry, keyed by the stem, for
\* exactly the files with extension .jpg, .jpeg or .png; other files are
\* skipped.
C7_DirectoryLoad ==
    (IsLoad(last) /\ isdir(last.path) /\ Loadable(last.path))
    => /\ last.err = "none"
       /\ \A p \in Under(last.path) :
              /\ Count(last.visited, SplitTail(p)) >= 1
              /\ Ext(SplitTail(p)) \in IMG_EXTs
                     => HasKey(mappings, Stem(SplitTail(p)))
              /\ Ext(SplitTail(p)) \notin IMG_EXTs
                     => Stem(SplitTail(p)) \notin {Stem(f) : f \in Range(last.steps)}

\* C8: load_images on a path that is neither a file nor a directory fails
\* with RuntimeError and changes neither the registry nor the cache
\* directory.
C8_InvalidPath ==
    [][ (IsLoad(last') /\ ~isdir(last'.path) /\ ~isfile(last'.path))
        => /\ last'.err = "RuntimeError"
           /\ mappings' = mappings
           /\ cacheDir' = cacheDir ]_vars

C8_Witness ==
    /\ IsLoad(last) /\ last.path = Missing /\ last.err = "RuntimeError"
    /\ ~last.fresh /\ last.cache
    /\ mappings # <<>> /\ ~CacheEmpty

\* cache directories to compare a call against: no entry at all, and a
\* well-formed array under every seeded name
AltCaches ==
    {c \in InitCaches :
        \/ \A f \in CacheFiles : ~c[f].exists
        \/ \A n \in SeedNames : c[CachePath(n)] = File(npy(EC))}

\* C9: with cache=False every per-file step invokes the embedding
\* collaborator, get_cached and add_cache are not called, the cache
\* directory is unchanged, and the outcome is the same whatever the cache
\* directory holds.
C9_NoCache ==
    [][ (IsLoad(last') /\ ~last'.cache)
        => /\ cacheDir' = cacheDir
           /\ last'.rd = <<>> /\ last'.wr = <<>>
           /\ Len(last'.enc) = Len(last'.steps)
           /\ \A c \in AltCaches :
                 \E r \in {load_images(last'.path,
                                       IF last'.fresh THEN <<>> ELSE mappings,
                                       FALSE, c, last'.visited)} :
                     /\ r.err = last'.err
                     /\ r.enc = last'.enc
                     /\ (last'.fresh /\ r.err # "none") \/ r.m = mappings' ]_vars

C9_Witness ==
    /\ IsLoad(last) /\ ~last.cache /\ last.err = "none"
    /\ Len(last.steps) = 1 /\ last.enc # <<>>
    /\ cacheDir[CachePath(last.steps[1])].exists
    /\ cacheDir[CachePath(Stem(last.steps[1]))].exists
    /\ HasKey(mappings, Stem(last.steps[1]))

\* C10: when the embedding collaborator returns no face for a reference
\* image, load_images fails with a NoFaceDetected error.
C10_NoFaceDetected ==
    ( /\ IsLoad(last) /\ last.enc # <<>>
      /\ face_encodings_of(last.enc[Len(last.enc)])
             = [err |-> "none", val |-> <<>>] )
    => last.err = "NoFaceDetected"

\* the entry of name k is the same in registries m and n (absent in both,
\* or present in both with the same embedding)
SameEntry(m, n, k) ==
    /\ HasKey(m, k) <=> HasKey(n, k)
    /\ HasKey(m, k) => Lookup(m, k) = Lookup(n, k)

\* the cache entry of a name exists but numpy.load cannot parse it
Corrupt(c, name) ==
    /\ c[CachePath(name)].exists
    /\ numpy_load(c[CachePath(name)].bytes).err # "none"

\* the file name of the last resolution step of a call
LastStep(call) == call.steps[Len(call.steps)]

C13_Idempotent ==
    [][ ( /\ IsLoad(last) /\ IsLoad(last')
          /\ last'.path = last.path /\ last'.cache = last.cache
          /\ isfile(last.path)
          /\ Ext(SplitTail(last.path)) \in IMG_EXTs
          /\ first_encoding(last.path).err = "none"
          /\ ~Corrupt(cacheDir, SplitTail(last.path)) )
        => /\ last.err = "none"
           /\ last'.err = "none"
           /\ Cardinality({i \in 1..Len(mappings') :
                  mappings'[i][1] = Stem(SplitTail(last.path))}) = 1
           /\ mappings' = mappings ]_vars

\* C15: no call of load_images, get_cached, add_cache or check_faces deletes
\* a cache entry: every entry file that existed before the call exists
\* after it.
C15_NoDeletion ==
    [][ \A f \in CacheFiles : cacheDir[f].exists => cacheDir'[f].exists ]_vars

C15_Witness ==
    /\ last.op = "add_cache" /\ last.err = "none"
    /\ cacheDir[CachePath(last.path)] = File(tobytes(last.emb))
    /\ \E f \in CacheFiles : f # CachePath(last.path) /\ cacheDir[f].exists

\* C16: check_faces returns labels and boxes as two parallel sequences, as
\* long as the number of faces detected in the image, the i-th label being
\* the one of the face in the i-th box; with no face both are empty.
C16_ParallelResults ==
    last.op = "check_faces"
    => /\ last.err = "none"
       /\ Len(last.ids) = Len(last.img)
       /\ Len(last.locs) = Len(last.img)
       /\ \A i \in 1..Len(last.img) :
              /\ last.locs[i] = last.img[i].box
              /\ mappings # <<>>
                     => last.ids[i] = LabelFor(mappings, last.img[i].enc)

\* the embedding a successful one-file load resolved: the collaborator's for
\* the image if it was invoked, else the one read from the cache
Resolved(call) ==
    IF call.enc # <<>>
    THEN first_encoding(call.path).val
    ELSE get_cached(SplitTail(call.path), cacheDir).val

C18_SameKey ==
    (IsLoad(last) /\ last.cache)
    => /\ \A i \in 1..Len(last.rd) : last.rd[i] = Stem(last.steps[i])
       /\ \A w \in Range(last.wr) : w \in Range(last.rd)

\* C19: for every detected face, the second and later ones included, the
\* match flags and the distances are both computed against all the known
\* embeddings, in registry order.
C19_EveryFaceAgainstAll ==
    (last.op = "check_faces" /\ mappings # <<>>)
    => /\ Len(last.seen) = Len(last.img)
       /\ \A i \in 1..Len(last.seen) :
              /\ last.seen[i].flags = Known(mappings)
              /\ last.seen[i].dists = Known(mappings)

\* the per-file step last run by a call missed the cache, computed the
\* embedding, and add_cache then failed on cache directory c
WriteFailed(call, c) ==
    /\ IsLoad(call) /\ call.cache
    /\ call.steps # <<>> /\ call.enc # <<>>
    /\ get_cached(LastStep(call), c).err \in OSErrors
    /\ first_encoding(call.enc[Len(call.enc)]).err = "none"
    /\ add_cache(Stem(LastStep(call)),
                 first_encoding(call.enc[Len(call.enc)]).val, c).err # "none"

\* C20: when add_cache fails after a cache miss in a per-file step, the
\* error leaves load_images and the registry has gained no entry for that
\* name (the insert comes only after a successful write); the entries that
\* were in the registry before remain.
C20_WriteFailure ==
    [][ WriteFailed(last', cacheDir)
        => /\ last'.err = add_cache(Stem(LastStep(last')),
                              first_encoding(last'.enc[Len(last'.enc)]).val,
                              cacheDir).err
           /\ Len(last'.wr) < Len(last'.enc)
           /\ SameEntry(mappings, mappings', Stem(LastStep(last')))
           /\ \A i \in 1..Len(mappings) :
                  /\ HasKey(mappings', mappings[i][1])
                  /\ Lookup(mappings', mappings[i][1]) = mappings[i][2] ]_vars

C20_Witness ==
    /\ WriteFailed(last, cacheDir) /\ ~last.fresh
    /\ last.err = "FileNotFoundError"
    /\ mappings # <<>>
    /\ ~HasKey(mappings, Stem(LastStep(last)))

\* C14: while processes execute add_cache for a name, a get_cached of that
\* name interleaved at any point never returns, as a hit, a vector of the
\* wrong length or content that is not a completely written embedding: it
\* fails, or returns a whole embedding.
C14_NoTornHit ==
    (race.r.pc = "done" /\ race.r.err = "none")
    => /\ Len(race.r.val) = Dim
       /\ race.r.val \in RaceEmbeddings \cup {EC}

\* a read that met a half-written entry and failed
C14_Witness ==
    /\ race.r.pc = "done" /\ race.r.mid
    /\ race.r.err = "ValueError"
    /\ \E p \in Writers :
           /\ race.w[p].pc = "writing" /\ race.w[p].name = race.r.name
           /\ race.w[p].pos \in 1..(Len(race.w[p].bytes) - 1)
           /\ cacheDir[CachePath(race.r.name)].bytes
                  = SubSeq(race.w[p].bytes, 1, race.w[p].pos)

====
